---- MODULE Spec2Model ----
(***************************************************************************)
(* arxiv_latex_cleaner.py: the comment stripper (_remove_comments and its  *)
(* helpers) and the resolver of referenced TeX files                       *)
(* (_keep_only_referenced_tex, _add_root_tex_files).                       *)
(*                                                                         *)
(* Python strings are sequences of tokens.  A token is one character       *)
(* ("x", " ", "%", "{", ...) or a fixed word that the code only ever       *)
(* treats as a unit ("auto-ignore", "\\begin{comment}", a file stem).      *)
(***************************************************************************)
EXTENDS Integers, Sequences, FiniteSets, TLC

VARIABLES
  pc,              \* position in run_arxiv_cleaner
  splits,          \* splits['tex_in_root'], splits['tex_not_in_root'], splits['tex_to_copy']
  contents,        \* tex_contents: file name -> cleaned list of lines
  old_referenced,  \* local of _keep_only_referenced_tex
  referenced,      \* local of _keep_only_referenced_tex (set built by the last round)
  rounds,          \* number of executions of the body of `while True`
  refs,            \* auxiliary: the pairs <<a, b>> with file a referencing file b
  content,         \* the lines of one TeX file as read by _read_file_content
  parameters,      \* parameters['commands_to_delete']
  cleaned,         \* tex_contents[tex_file] after _remove_comments
  written          \* the text handed to _write_file_content

resolverVars == <<splits, contents, old_referenced, referenced, rounds, refs>>
stripperVars == <<content, parameters, cleaned, written>>
vars == <<pc, splits, contents, old_referenced, referenced, rounds, refs,
          content, parameters, cleaned, written>>

\* ------------------------------------------------------------------ bounds
\* number of TeX files in the input folder
MaxFiles == 3
\* number of files one TeX file refers to
MaxRefs == 1
\* number of pieces (see Pieces) the text of a TeX file is made of
MaxPieces == 4

\* ------------------------------------------------------- string helpers
Range(s) == {s[i] : i \in DOMAIN s}

RECURSIVE Join(_, _)
\* sep.join(lines)
Join(lines, sep) ==
  IF lines = <<>> THEN <<>>
  ELSE IF Len(lines) = 1 THEN lines[1]
  ELSE lines[1] \o sep \o Join(Tail(lines), sep)

\* os.path.splitext(fn)[0]: the name up to, not including, its last "."
SplitExtRoot(fn) ==
  IF \E i \in DOMAIN fn : fn[i] = "."
  THEN SubSeq(fn, 1, (CHOOSE i \in DOMAIN fn :
                        fn[i] = "." /\ \A j \in DOMAIN fn : fn[j] = "." => j <= i) - 1)
  ELSE fn

\* re.search(r'(' + name + r'[.}])', text)
SearchName(name, text) ==
  \E i \in 1..(Len(text) - Len(name)) :
     /\ text[i + Len(name)] \in {".", "}"}
     /\ SubSeq(text, i, i + Len(name) - 1) = name

\* the test of lines 248-249: fn's stripped name occurs in the text of fn2
IsReferencedFrom(fn, fn2, conts) ==
  SearchName(SplitExtRoot(fn), Join(conts[fn2], <<"\n">>))

\* ------------------------------------------------------------- resolver
\* ScanRound with the contents of every file searched, dropped files included
ScanRound_SearchAll(old, conts, spl) ==
  Range(spl.tex_in_root) \cup
    {fn \in old : \E fn2 \in DOMAIN conts : IsReferencedFrom(fn, fn2, conts)}

\* ScanRound starting each round from the empty set
ScanRound_NoSeed(old, conts, spl) ==
  {fn \in old : \E fn2 \in old : IsReferencedFrom(fn, fn2, conts)}

\* ScanRound starting each round from the nested files
ScanRound_WrongSeed(old, conts, spl) ==
  Range(spl.tex_not_in_root) \cup
    {fn \in old : \E fn2 \in old : IsReferencedFrom(fn, fn2, conts)}

\* ScanRound adding fn2, the file whose text was searched
ScanRound_AddSearched(old, conts, spl) ==
  Range(spl.tex_in_root) \cup
    {fn2 \in old : \E fn \in old : IsReferencedFrom(fn, fn2, conts)}

\* one execution of lines 245-250
ScanRound(old, conts, spl) ==
  Range(spl.tex_in_root) \cup
    {fn \in old : \E fn2 \in old : IsReferencedFrom(fn, fn2, conts)}

\* list(referenced); the order of a Python set is unspecified, the model
\* lists it in the order of tex_in_root + tex_not_in_root
ListOf(set, spl) ==
  SelectSeq(spl.tex_in_root \o spl.tex_not_in_root, LAMBDA fn : fn \in set)

\* AppendMissing assigning the missing root files instead of appending them
AppendMissing_Assign(roots, toCopy) ==
  SelectSeq(roots, LAMBDA fn : fn \notin Range(toCopy))

RECURSIVE AppendMissing(_, _)
\* lines 264-266
AppendMissing(roots, toCopy) ==
  IF roots = <<>> THEN toCopy
  ELSE AppendMissing(Tail(roots),
         IF Head(roots) \notin Range(toCopy) THEN Append(toCopy, Head(roots))
         ELSE toCopy)

\* ------------------------------------------------------------- inputs
Stems == <<"a", "b", "c", "d", "e", "f">>

\* the i-th TeX file of a tree whose first k TeX files lie in the root
FileName(i, k) ==
  IF i <= k THEN <<Stems[i], ".", "tex">> ELSE <<"s/", Stems[i], ".", "tex">>

\* the line of file i about file j: an \input with or without extension
\* when i refers to j, a bare mention of the name otherwise
LineAbout(i, j, k, refers) ==
  IF ~refers THEN SplitExtRoot(FileName(j, k))
  ELSE IF (i + j) % 2 = 0
       THEN <<"\\input{">> \o SplitExtRoot(FileName(j, k)) \o <<"}">>
       ELSE <<"\\input{">> \o FileName(j, k) \o <<"}">>

CleanedLines(i, n, k, targets) ==
  IF n = 0 THEN << <<>> >>
  ELSE [j \in 1..n |-> LineAbout(i, j, k, j \in targets)]

Universe(spl) == Range(spl.tex_in_root) \cup Range(spl.tex_not_in_root)

InitResolve ==
  \E n \in 0..MaxFiles : \E k \in 0..n :
  \E tg \in [1..n -> {S \in SUBSET (1..n) : Cardinality(S) <= MaxRefs}] :
     /\ splits = [tex_in_root     |-> [i \in 1..k |-> FileName(i, k)],
                  tex_not_in_root |-> [i \in 1..(n - k) |-> FileName(k + i, k)],
                  tex_to_copy     |-> <<>>]
     /\ contents = [fn \in {FileName(i, k) : i \in 1..n} |->
                      CleanedLines(CHOOSE i \in 1..n : FileName(i, k) = fn, n, k,
                                   tg[CHOOSE i \in 1..n : FileName(i, k) = fn])]
     /\ refs = {p \in (DOMAIN contents) \X (DOMAIN contents) :
                    IsReferencedFrom(p[2], p[1], contents)}
     \* line 243
     /\ old_referenced = {FileName(i, k) : i \in 1..n}
     /\ referenced = {}
     /\ rounds = 0
     /\ pc = "loop"
     /\ content = <<>> /\ parameters = [commands_to_delete |-> <<>>]
     /\ cleaned = <<>> /\ written = <<>>

\* the loop body without line 256
KeepOnlyReferencedTexRound_NoCopy ==
  /\ pc = "loop"
  /\ rounds <= Cardinality(Universe(splits)) + 1
  /\ referenced' = ScanRound(old_referenced, contents, splits)
  /\ rounds' = rounds + 1
  /\ IF referenced' = old_referenced
     THEN /\ splits' = [splits EXCEPT !.tex_to_copy = ListOf(referenced', splits)]
          /\ pc' = "resolved"
     ELSE UNCHANGED <<splits, pc>>
  /\ UNCHANGED <<contents, old_referenced, refs>>
  /\ UNCHANGED stripperVars

\* lines 244-256: one execution of the loop body; the round counter is
\* capped so that the state space is finite whatever the loop does
KeepOnlyReferencedTexRound ==
  /\ pc = "loop"
  /\ rounds <= Cardinality(Universe(splits)) + 1
  /\ referenced' = ScanRound(old_referenced, contents, splits)
  /\ rounds' = rounds + 1
  /\ IF referenced' = old_referenced
     THEN /\ splits' = [splits EXCEPT !.tex_to_copy = ListOf(referenced', splits)]
          /\ pc' = "resolved"
          /\ UNCHANGED old_referenced
     ELSE /\ old_referenced' = referenced'
          /\ UNCHANGED <<splits, pc>>
  /\ UNCHANGED <<contents, refs>>
  /\ UNCHANGED stripperVars

\* lines 259-266
AddRootTexFiles ==
  /\ pc = "resolved"
  /\ splits' = [splits EXCEPT
                  !.tex_to_copy = AppendMissing(splits.tex_in_root, splits.tex_to_copy)]
  /\ pc' = "added"
  /\ UNCHANGED <<contents, old_referenced, referenced, rounds, refs>>
  /\ UNCHANGED stripperVars

NextResolve == KeepOnlyReferencedTexRound \/ AddRootTexFiles

SpecResolve == InitResolve /\ [][NextResolve]_vars

\* ------------------------------------------------- resolver: properties
U == Universe(splits)
Root == Range(splits.tex_in_root)
Nested == Range(splits.tex_not_in_root)
Retained == Range(splits.tex_to_copy)

\* file a references file b
Ref(a, b) == <<a, b>> \in refs

Succ(S) == {p[2] : p \in {q \in refs : q[1] \in S}}

RECURSIVE Closure(_)
\* S and every file reached from S by a chain of references
Closure(S) == IF Succ(S) \subseteq S THEN S ELSE Closure(S \cup Succ(S))

\* the files that lie on a cycle of references (a self reference included)
OnCycle == {f \in U : f \in Closure(Succ({f}))}

\* the root files and the files reachable from them
Reachable == Closure(Root)

\* the root files and the files reachable from them or from a cycle
ReachableOrCyclic == Closure(Root \cup OnCycle)

RoundTaken == rounds' = rounds + 1

C2_RootFilesRetained ==
  pc = "added" => \A fn \in Root : fn \in Retained

C2_Witness ==
  /\ pc = "added"
  /\ Nested # {}
  /\ \E fn \in Root : (\A a \in U : ~Ref(a, fn)) /\ fn \in Retained

\* C3: the loop ends, and every file reachable from a root file by a chain
\* of references survives every round and is in the stored set, also when
\* the chain is a cycle through a root file.
C3_ReachableRetained ==
  /\ pc = "loop" => rounds <= Cardinality(U)
  /\ Reachable \subseteq (IF pc = "loop" THEN old_referenced ELSE Retained)

C3_Witness ==
  /\ pc = "resolved"
  /\ \E a \in Root : \E b, c \in U :
        /\ Cardinality({a, b, c}) = 3
        /\ Ref(a, b) /\ Ref(b, c) /\ Ref(c, a)
        /\ {a, b, c} \subseteq Retained

\* C4 (as stated): the set built in round k+1 contains the set built in
\* round k.
C4_Grows ==
  [][RoundTaken /\ rounds >= 1 => referenced \subseteq referenced']_vars

\* C4 (amended): the retained set shrinks monotonically: the set built in
\* the first round is contained in U, the set built in round k+1 is
\* contained in the set built in round k, and every round's set contains
\* the root files.
C4_Shrinks ==
  [][RoundTaken =>
       /\ referenced' \subseteq old_referenced
       /\ rounds >= 1 => referenced' \subseteq referenced
       /\ Root \subseteq referenced']_vars

C4_Witness ==
  /\ pc = "loop"
  /\ rounds = 2
  /\ Root # {}
  /\ referenced # U

\* C5 (as stated): the loop ends after at most |U| rounds.
C5_AtMostUniverseRounds ==
  rounds <= Cardinality(U)

\* C5 (amended): the loop ends after at most |U| + 1 rounds.
C5_AtMostUniversePlusOneRounds ==
  rounds <= Cardinality(U) + 1

C5_Witness ==
  /\ pc = "resolved"
  /\ Cardinality(U) >= 2
  /\ rounds = Cardinality(U) + 1

\* C8 (as stated): in each round, when b's name occurs in a's text, a is
\* the file marked retained.
C8_ReferencingFileMarked ==
  [][RoundTaken =>
       \A a, b \in old_referenced : Ref(a, b) => a \in referenced']_vars

\* C8 (amended): in each round, when b's name occurs in a's text (a and b
\* both in the set of the previous round), b is the file marked retained;
\* so a nested file that no file references is not in the result, whatever
\* it references.
C8_ReferencedFileMarked ==
  [][RoundTaken =>
       /\ \A a, b \in old_referenced : Ref(a, b) => b \in referenced'
       /\ pc' = "resolved" =>
            \A b \in Nested : (\A a \in U : ~Ref(a, b)) => b \notin Range(splits'.tex_to_copy)]_vars

C8_Witness ==
  /\ pc = "resolved"
  /\ \E a \in Nested : \E b \in U :
        /\ a # b
        /\ Ref(a, b)
        /\ \A c \in U : ~Ref(c, a)
        /\ a \notin Retained
        /\ b \in Retained /\ b \in Nested

\* ------------------------------------------------------------- stripper
AutoIgnore == "auto-ignore"
BeginEnv(environment) == "\\begin{" \o environment \o "}"
EndEnv(environment) == "\\end{" \o environment \o "}"
CommandToken(command) == "\\" \o command

RECURSIVE LStrip(_, _)
\* text.lstrip(ch)
LStrip(text, ch) ==
  IF text # <<>> /\ Head(text) = ch THEN LStrip(Tail(text), ch) ELSE text

\* the positions of the matches of (?<!\\)%
UnescapedPercents(text) ==
  {i \in DOMAIN text : text[i] = "%" /\ (i = 1 \/ text[i - 1] # "\\")}

Min(S) == CHOOSE i \in S : \A j \in S : i <= j

\* _remove_comments_inline without the test of line 118
RemoveCommentsInline_NoMarker(text) ==
  IF Len(LStrip(LStrip(text, " "), "\t")) > 0
       /\ Head(LStrip(LStrip(text, " "), "\t")) = "%"
  THEN <<>>
  ELSE IF UnescapedPercents(text) # {}
       THEN SubSeq(text, 1, Min(UnescapedPercents(text))) \o <<"\n">>
       ELSE text

\* lines 116-126
RemoveCommentsInline(text) ==
  IF AutoIgnore \in Range(text) THEN text
  ELSE IF Len(LStrip(LStrip(text, " "), "\t")) > 0
            /\ Head(LStrip(LStrip(text, " "), "\t")) = "%"
  THEN <<>>
  ELSE IF UnescapedPercents(text) # {}
       THEN SubSeq(text, 1, Min(UnescapedPercents(text))) \o <<"\n">>
       ELSE text

RECURSIVE RemoveEnvironment(_, _)
\* lines 109-113: re.sub of \begin{environment}[\s\S]*?\end{environment}
RemoveEnvironment(text, environment) ==
  IF text = <<>> THEN <<>>
  ELSE IF /\ Head(text) = BeginEnv(environment)
          /\ \E j \in 2..Len(text) : text[j] = EndEnv(environment)
       THEN RemoveEnvironment(
              SubSeq(text, Min({j \in 2..Len(text) : text[j] = EndEnv(environment)}) + 1,
                     Len(text)),
              environment)
       ELSE <<Head(text)>> \o RemoveEnvironment(Tail(text), environment)

\* the tokens that hold a balanced {...} of their own
HoldsBraces(tok) == tok \in {BeginEnv("comment"), EndEnv("comment")}

RECURSIVE ArgumentEnd(_, _, _)
\* the position of the "}" that closes the argument opened before
\* position i at nesting depth `depth`, 0 when the pattern
\* {(?:[^}{]+|{(?:[^}{]+|{[^}{]*})*})*} does not match: a missing "}",
\* or braces nested more than three deep
ArgumentEnd(text, i, depth) ==
  IF i > Len(text) THEN 0
  ELSE IF text[i] = "}"
       THEN IF depth = 1 THEN i ELSE ArgumentEnd(text, i + 1, depth - 1)
  ELSE IF text[i] = "{"
       THEN IF depth = 3 THEN 0 ELSE ArgumentEnd(text, i + 1, depth + 1)
  ELSE IF HoldsBraces(text[i]) /\ depth = 3 THEN 0
  ELSE ArgumentEnd(text, i + 1, depth)

RECURSIVE RemoveCommand(_, _)
\* lines 99-106: re.sub of \command{...}
RemoveCommand(text, command) ==
  IF text = <<>> THEN <<>>
  ELSE IF /\ Len(text) >= 2
          /\ text[1] = CommandToken(command)
          /\ text[2] = "{"
          /\ ArgumentEnd(text, 3, 1) # 0
       THEN RemoveCommand(SubSeq(text, ArgumentEnd(text, 3, 1) + 1, Len(text)), command)
       ELSE <<Head(text)>> \o RemoveCommand(Tail(text), command)

RECURSIVE RemoveCommands(_, _)
\* lines 152-153
RemoveCommands(text, commands) ==
  IF commands = <<>> THEN text
  ELSE RemoveCommands(RemoveCommand(text, Head(commands)), Tail(commands))

RECURSIVE SplitLines(_)
\* text.split('\n')
SplitLines(text) ==
  IF \A i \in DOMAIN text : text[i] # "\n" THEN <<text>>
  ELSE <<SubSeq(text, 1, Min({i \in DOMAIN text : text[i] = "\n"}) - 1)>> \o
       SplitLines(SubSeq(text, Min({i \in DOMAIN text : text[i] = "\n"}) + 1, Len(text)))

\* text.split('\n') with the empty last element that a closing newline
\* leaves removed
Split_DropLast(text) ==
  IF text # <<>> /\ text[Len(text)] = "\n"
  THEN SubSeq(SplitLines(text), 1, Len(SplitLines(text)) - 1)
  ELSE SplitLines(text)

\* line 156
Split(text) == SplitLines(text)

\* line 150
InlineAll(lines) == [i \in DOMAIN lines |-> RemoveCommentsInline(lines[i])]

\* lines 150-153: the text that line 156 splits
Stripped(lines, params) ==
  RemoveCommands(RemoveEnvironment(Join(InlineAll(lines), <<>>), "comment"),
                 params.commands_to_delete)

\* lines 148-156
RemoveComments(lines, params) == Split(Stripped(lines, params))

RECURSIVE ReadLines(_)
\* lines 129-131: fp.readlines() keeps the newline that ends a line
ReadLines(text) ==
  IF text = <<>> THEN <<>>
  ELSE IF \A i \in DOMAIN text : text[i] # "\n" THEN <<text>>
  ELSE <<SubSeq(text, 1, Min({i \in DOMAIN text : text[i] = "\n"}))>> \o
       ReadLines(SubSeq(text, Min({i \in DOMAIN text : text[i] = "\n"}) + 1, Len(text)))

\* ------------------------------------------------------ stripper inputs
\* what the text of a file is made of: characters, the marker, the
\* delimiters of the comment environment and a command with its argument
Pieces ==
  { <<"x">>, <<" ">>, <<"\t">>, <<"%">>, <<"\\">>, <<"\n">>, <<AutoIgnore>>,
    <<BeginEnv("comment")>>, <<EndEnv("comment")>>,
    <<CommandToken("note"), "{", "x", "}">> }

FileTexts ==
  {Join(ps, <<>>) : ps \in UNION {[1..m -> Pieces] : m \in 0..MaxPieces}}

InitStrip ==
  \E text \in FileTexts : \E cmds \in {<<>>, <<"note">>} :
     /\ content = ReadLines(text)
     /\ parameters = [commands_to_delete |-> cmds]
     /\ cleaned = <<>>
     /\ written = <<>>
     /\ pc = "read"
     /\ splits = [tex_in_root |-> <<>>, tex_not_in_root |-> <<>>, tex_to_copy |-> <<>>]
     /\ contents = <<>>
     /\ old_referenced = {} /\ referenced = {} /\ rounds = 0 /\ refs = {}

\* lines 384-386
RemoveCommentsStep ==
  /\ pc = "read"
  /\ cleaned' = RemoveComments(content, parameters)
  /\ pc' = "cleaned"
  /\ UNCHANGED <<content, parameters, written>>
  /\ UNCHANGED resolverVars

\* lines 391-393
WriteFileContent ==
  /\ pc = "cleaned"
  /\ written' = Join(cleaned, <<"\n">>)
  /\ pc' = "written"
  /\ UNCHANGED <<content, parameters, cleaned>>
  /\ UNCHANGED resolverVars

NextStrip == RemoveCommentsStep \/ WriteFileContent

SpecStrip == InitStrip /\ [][NextStrip]_vars

\* ------------------------------------------------- stripper: properties
\* a line without the newline that ends it
Chomp(line) ==
  IF line # <<>> /\ line[Len(line)] = "\n" THEN SubSeq(line, 1, Len(line) - 1) ELSE line

HasMarker(line) == AutoIgnore \in Range(line)

\* the line opens no comment environment and names no command to delete
OpensNothing(line) ==
  /\ BeginEnv("comment") \notin Range(line)
  /\ \A c \in Range(parameters.commands_to_delete) : CommandToken(c) \notin Range(line)

RECURSIVE LStripBlanks(_)
\* the line without its leading spaces and tabs
LStripBlanks(line) ==
  IF line # <<>> /\ Head(line) \in {" ", "\t"} THEN LStripBlanks(Tail(line)) ELSE line

\* C6 (as stated): a line that contains auto-ignore appears unchanged in
\* the output of _remove_comments, whatever it and the other lines hold.
C6_MarkedLineNeverAltered ==
  pc # "read" =>
    \A i \in DOMAIN content :
       HasMarker(content[i]) => Chomp(content[i]) \in Range(cleaned)

\* C6 (amended): a line that contains auto-ignore appears unchanged in the
\* output of _remove_comments, whatever comment characters it and the
\* other lines hold, provided that neither it nor a line before it holds
\* \begin{comment} or one of the commands to delete.
C6_MarkedLineKeptOutsideSpans ==
  pc # "read" =>
    \A i \in DOMAIN content :
       (HasMarker(content[i]) /\ \A j \in 1..i : OpensNothing(content[j]))
          => Chomp(content[i]) \in Range(cleaned)

C6_Witness ==
  /\ pc = "cleaned"
  /\ \E i \in DOMAIN content :
        /\ HasMarker(content[i]) /\ "%" \in Range(content[i])
        /\ \A j \in 1..i : OpensNothing(content[j])
        /\ Chomp(content[i]) \in Range(cleaned)
        /\ i < Len(content)
        /\ ~OpensNothing(content[i + 1])
        /\ Len(Stripped(content, parameters)) < Len(Join(content, <<>>))

\* C7: a line without auto-ignore whose first character after its leading
\* spaces and tabs, in any order, is % becomes the empty string.
C7_WholeLineCommentEmptied ==
  pc # "read" =>
    \A i \in DOMAIN content :
       (/\ ~HasMarker(content[i])
        /\ LStripBlanks(content[i]) # <<>>
        /\ Head(LStripBlanks(content[i])) = "%")
          => InlineAll(content)[i] = <<>>

\* C9: when the stripped text ends with a newline, the lines returned by
\* _remove_comments do not end with the empty string that the split makes
\* of it: there are as many lines as newlines.
C9_TrailingEmptyLineDropped ==
  (pc # "read"
     /\ Stripped(content, parameters) # <<>>
     /\ Stripped(content, parameters)[Len(Stripped(content, parameters))] = "\n")
  => Len(cleaned) = Cardinality({i \in DOMAIN Stripped(content, parameters) :
                                    Stripped(content, parameters)[i] = "\n"})

\* nothing for _remove_comments to strip: no %, no comment environment, no
\* command to delete
NothingToStrip ==
  LET text == Join(content, <<>>) IN
  /\ "%" \notin Range(text)
  /\ ~\E i, j \in DOMAIN text :
        i < j /\ text[i] = BeginEnv("comment") /\ text[j] = EndEnv("comment")
  /\ \A c \in Range(parameters.commands_to_delete) : CommandToken(c) \notin Range(text)

====
